---------------------------- MODULE Spec2Model ----------------------------
(***************************************************************************)
(* Model of src/camtrack/corners.py: the corner storage builder            *)
(* (_CornerStorageBuilder), the tracking pipeline (_build_impl) and its    *)
(* driver (build).                                                         *)
(*                                                                         *)
(* Images are not modelled: the two OpenCV capabilities the pipeline calls *)
(* (goodFeaturesToTrack, calcOpticalFlowPyrLK) are external and their      *)
(* results are drawn nondeterministically from bounded sets.  They are     *)
(* taken to honour their contract (a clean, possibly empty, result), so    *)
(* every fault of the model is a fault of corners.py itself.               *)
(*                                                                         *)
(* Two names used by _build_impl are bound nowhere in the module: the      *)
(* imports of lines 13-19 bring in neither `new_corners' (read at lines 69 *)
(* and 119) nor `filter_frame_corners' (called at line 89).  Python raises *)
(* NameError when such a name is evaluated; the model does the same, and   *)
(* the statements after the raise are never executed.                      *)
(***************************************************************************)
EXTENDS Integers, Sequences, FiniteSets, TLC

VARIABLES
    N,            \* len(frame_sequence)
    progress,     \* build's argument: the builder has a progress indicator
    pc,           \* position: seed | track | done | fault (build), client | built
                  \* (builder used directly), filter | filtered (short-track filter)
    counter,      \* index of the enumerate(levels) loop of lines 63-69
    points,       \* local array `points' of _build_impl
    sizes,        \* local array `sizes' of _build_impl
    corners,      \* local `corners': the active set (empty until line 71)
    frame,        \* loop variable of line 81
    st,           \* status array returned by calcOpticalFlowPyrLK (line 82)
    next_points,  \* predicted positions returned by calcOpticalFlowPyrLK
    _corners,     \* _CornerStorageBuilder._corners: dict frame -> FrameCorners
    updates,      \* number of update(1) calls the progress indicator received
    storage,      \* value returned by build_corner_storage (<<>> before)
    err,          \* the exception that ended the run (NoError if none)
    calls,        \* history: the set_corners_at_frame calls, in order
    detected,     \* history: the goodFeaturesToTrack calls, in order
    tracked,      \* history: the calcOpticalFlowPyrLK calls, in order
    min_len,      \* without_short_tracks' argument min_len
    filtered      \* value returned by without_short_tracks (<<>> before)

vars == <<N, progress, pc, counter, points, sizes, corners, frame, st,
          next_points, _corners, updates, storage, err, calls, detected,
          tracked, min_len, filtered>>

(***************************************************************************)
(* Bounds of the model.                                                    *)
(***************************************************************************)
MaxFrames == 3
MaxCoord == 2
MaxCorners == 2
MaxIndex == 2
MaxCalls == 3
MaxId == 1
MaxStoreLen == 2
MaxMinLen == 3

\* Python's None where the code tests for it: cv2.goodFeaturesToTrack
\* returns None, never an empty array, when it finds no corner.
None == <<>>

\* No exception has been raised.
NoError == [type |-> "None", name |-> "", line |-> 0]

(***************************************************************************)
(* Values                                                                  *)
(***************************************************************************)
\* Coordinates the detector may report at a level's own resolution; the
\* spec's scenario uses (5,5) and (10,10).
Coord == {5 * i : i \in 1..MaxCoord}

Pixels == Coord \X Coord

\* np.arange(a, b)
arange(a, b) == [i \in 1..(IF b > a THEN b - a ELSE 0) |-> a + i - 1]

RECURSIVE Pow2(_)
\* 2 ** counter (lines 64, 107)
Pow2(n) == IF n = 0 THEN 1 ELSE 2 * Pow2(n - 1)

\* new_points * scale (line 68)
Scaled(ps, scale) == [i \in 1..Len(ps) |-> <<ps[i][1] * scale, ps[i][2] * scale>>]

\* Injective sequences over S of length 1..n
DistinctSeqs(S, n) ==
    UNION {{s \in [1..k -> S] : \A i, j \in 1..k : i # j => s[i] # s[j]} : k \in 1..n}

\* cv2.goodFeaturesToTrack (lines 65, 115): None when no corner qualifies,
\* otherwise a non-empty array of distinct positions (minDistance = 7).
goodFeaturesToTrack == {None} \cup DistinctSeqs(Pixels, MaxCorners)

\* `max_level = 2' (line 51)
max_level == 2

\* The pyramid of lines 52-57: frame_sequence[0] and max_level pyrDown's of
\* it, enumerated from 0 by line 63.
levels == 0..max_level

\* FrameCorners(ids, points, sizes) as called at lines 71-75: the value
\* holding the three arrays, read back as .ids, .points, .sizes.  The class
\* itself is imported (line 18); the only call the pipeline reaches passes
\* three empty arrays.
FrameCorners(ids, ps, ss) == [ids |-> ids, points |-> ps, sizes |-> ss]

\* np.arange(len(points) + 1): one id more than there are points
SeedIdsOneTooMany(ps) == arange(0, Len(ps) + 1)

\* ids of the seeded frame: np.arange(len(points)) (line 72)
SeedIds(ps) == arange(0, Len(ps))

(***************************************************************************)
(* _CornerStorageBuilder                                                   *)
(***************************************************************************)
\* self._corners.setdefault(frame, corners): the first write wins
DictSetDefault(d, f, c) == [k \in DOMAIN d \cup {f} |-> IF k \in DOMAIN d THEN d[k] ELSE c]

\* self._corners[frame] = corners (line 29)
DictSet(d, f, c) == [k \in DOMAIN d \cup {f} |-> IF k = f THEN c ELSE d[k]]

RECURSIVE SortedKeys(_)
\* the keys of sorted(d.items()), ascending (line 34)
SortedKeys(ks) ==
    IF ks = {} THEN <<>>
    ELSE LET m == CHOOSE x \in ks : \A y \in ks : x <= y
         IN  <<m>> \o SortedKeys(ks \ {m})

\* [self._corners[i] for i in range(max(self._corners) + 1)]: one entry per
\* index up to the highest written, an empty FrameCorners where none is.
build_dense_storage(d) ==
    IF DOMAIN d = {} THEN <<>>
    ELSE LET top == CHOOSE x \in DOMAIN d : \A y \in DOMAIN d : y <= x
         IN  [i \in 1..(top + 1) |->
                 IF i - 1 \in DOMAIN d THEN d[i - 1] ELSE FrameCorners(<<>>, <<>>, <<>>)]

\* StorageImpl(item[1] for item in sorted(self._corners.items())) (line 34)
build_corner_storage(d) ==
    LET ks == SortedKeys(DOMAIN d) IN [i \in 1..Len(ks) |-> d[ks[i]]]

\* set_corners_at_frame (lines 28-31)
set_corners_at_frame(f, c) ==
    /\ _corners' = DictSet(_corners, f, c)
    /\ updates' = IF progress THEN updates + 1 ELSE updates
    /\ calls' = Append(calls, [frame |-> f, corners |-> c])

(***************************************************************************)
(* build / _build_impl                                                     *)
(***************************************************************************)
\* State on entry of the seeding loop: build has made the builder (lines
\* 146-153) and _build_impl has run lines 50-61.  The frame sequence has at
\* least one frame (line 52 reads frame_sequence[0]).
Init ==
    /\ N \in 1..MaxFrames
    /\ progress \in BOOLEAN
    /\ pc = "seed"
    /\ counter = 0
    /\ points = <<>>
    /\ sizes = <<>>
    /\ corners = FrameCorners(<<>>, <<>>, <<>>)
    /\ frame = 0
    /\ st = <<>>
    /\ next_points = <<>>
    /\ _corners = <<>>
    /\ updates = 0
    /\ storage = <<>>
    /\ err = NoError
    /\ calls = <<>>
    /\ detected = <<>>
    /\ tracked = <<>>
    /\ min_len = 1
    /\ filtered = <<>>

\* One iteration of the loop of lines 63-69 on level `counter'.
SeedLevel ==
    /\ pc = "seed"
    /\ counter \in levels
    /\ \E new_points \in goodFeaturesToTrack :
         /\ detected' = Append(detected, [frame |-> 0, level |-> counter,
                                          mask |-> None, result |-> new_points])
         /\ IF new_points = None
            THEN /\ counter' = counter + 1
                 /\ UNCHANGED <<points, pc, err>>
            ELSE \* line 68 appends, line 69 evaluates len(new_corners)
                 /\ points' = points \o Scaled(new_points, Pow2(counter))
                 /\ pc' = "fault"
                 /\ err' = [type |-> "NameError", name |-> "new_corners", line |-> 69]
                 /\ UNCHANGED counter
    /\ UNCHANGED <<N, progress, sizes, corners, frame, st, next_points,
                   _corners, updates, storage, calls, tracked>>
    /\ UNCHANGED <<min_len, filtered>>

\* Lines 71-79: the seeded FrameCorners is built and committed as frame 0.
SeedCommit ==
    /\ pc = "seed"
    /\ counter \notin levels
    /\ corners' = FrameCorners(SeedIds(points), points, sizes)
    /\ set_corners_at_frame(0, corners')
    /\ frame' = 1
    /\ pc' = "track"
    /\ UNCHANGED <<N, progress, counter, points, sizes, st, next_points,
                   storage, err, detected, tracked>>
    /\ UNCHANGED <<min_len, filtered>>

\* Lines 81-89: the step for frame `frame'.  The tracker returns one
\* status and one predicted position per point of the active set (line 82);
\* line 89 then evaluates the unbound name filter_frame_corners, before the
\* builder write of line 90.  Lines 90-134 are never executed.
Track ==
    /\ pc = "track"
    /\ frame <= N - 1
    /\ \E s \in [1..Len(corners.points) -> {0, 1}],
          p \in [1..Len(corners.points) -> Pixels] :
         /\ st' = s
         /\ next_points' = p
         /\ tracked' = Append(tracked, [frame |-> frame, prev |-> corners,
                                        st |-> s, next_points |-> p])
    /\ pc' = "fault"
    /\ err' = [type |-> "NameError", name |-> "filter_frame_corners", line |-> 89]
    /\ UNCHANGED <<N, progress, counter, points, sizes, corners, frame,
                   _corners, updates, storage, calls, detected>>
    /\ UNCHANGED <<min_len, filtered>>

\* The loop of line 81 is exhausted; build returns
\* builder.build_corner_storage() (line 154).
Return ==
    /\ pc = "track"
    /\ frame > N - 1
    /\ storage' = build_corner_storage(_corners)
    /\ pc' = "done"
    /\ UNCHANGED <<N, progress, counter, points, sizes, corners, frame, st,
                   next_points, _corners, updates, err, calls, detected,
                   tracked>>
    /\ UNCHANGED <<min_len, filtered>>

Next == SeedLevel \/ SeedCommit \/ Track \/ Return

Spec == Init /\ [][Next]_vars

(***************************************************************************)
(* The builder driven directly by a client: any sequence of                *)
(* set_corners_at_frame calls, then build_corner_storage.                  *)
(***************************************************************************)
\* FrameCorners values a client hands to the builder
SampleCorners ==
    { FrameCorners(<<>>, <<>>, <<>>),
      FrameCorners(<<0>>, <<<<5, 5>>>>, <<7>>),
      FrameCorners(<<0, 1>>, <<<<10, 10>>, <<10, 10>>>>, <<7, 14>>) }

\* _CornerStorageBuilder.__init__ (lines 24-26)
InitBuilder ==
    /\ N = 0
    /\ progress \in BOOLEAN
    /\ pc = "client"
    /\ counter = 0
    /\ points = <<>>
    /\ sizes = <<>>
    /\ corners = FrameCorners(<<>>, <<>>, <<>>)
    /\ frame = 0
    /\ st = <<>>
    /\ next_points = <<>>
    /\ _corners = <<>>
    /\ updates = 0
    /\ storage = <<>>
    /\ err = NoError
    /\ calls = <<>>
    /\ detected = <<>>
    /\ tracked = <<>>
    /\ min_len = 1
    /\ filtered = <<>>

ClientSet ==
    /\ pc = "client"
    /\ Len(calls) < MaxCalls
    /\ \E f \in 0..MaxIndex, c \in SampleCorners : set_corners_at_frame(f, c)
    /\ UNCHANGED <<N, progress, pc, counter, points, sizes, corners, frame,
                   st, next_points, storage, err, detected, tracked>>
    /\ UNCHANGED <<min_len, filtered>>

ClientBuild ==
    /\ pc = "client"
    /\ storage' = build_corner_storage(_corners)
    /\ pc' = "built"
    /\ UNCHANGED <<N, progress, counter, points, sizes, corners, frame, st,
                   next_points, _corners, updates, err, calls, detected,
                   tracked>>
    /\ UNCHANGED <<min_len, filtered>>

NextBuilder == ClientSet \/ ClientBuild

SpecBuilder == InitBuilder /\ [][NextBuilder]_vars

(***************************************************************************)
(* Vocabulary of the properties                                            *)
(***************************************************************************)
Range(s) == {s[i] : i \in DOMAIN s}

\* The run has ended: build returned or an exception left it.
Ended == pc \in {"done", "fault"}

\* Frame 0 has been committed to the builder.
Seeded == 0 \in DOMAIN _corners

\* The step for frame k has ended, normally or by an exception.
StepEnded(k) ==
    IF k = 0 THEN pc # "seed"
    ELSE Seeded /\ (pc = "done" \/ frame > k \/ (pc = "fault" /\ frame = k))

\* The detector calls made for frame f, in call order.
Found(f) == SelectSeq(detected, LAMBDA d : d.frame = f)

RECURSIVE NewPoints(_)
\* Candidates of a sequence of detector calls at full resolution, call by call.
NewPoints(ds) ==
    IF ds = <<>> THEN <<>>
    ELSE Scaled(Head(ds).result, Pow2(Head(ds).level)) \o NewPoints(Tail(ds))

RECURSIVE NewSizes(_)
\* Their sizes: 7 * 2^level each.
NewSizes(ds) ==
    IF ds = <<>> THEN <<>>
    ELSE [i \in 1..Len(Head(ds).result) |-> 7 * Pow2(Head(ds).level)] \o NewSizes(Tail(ds))

\* The three arrays are parallel and no id occurs twice.
WellFormed(c) ==
    /\ Len(c.ids) = Len(c.points)
    /\ Len(c.points) = Len(c.sizes)
    /\ \A i, j \in DOMAIN c.ids : i # j => c.ids[i] # c.ids[j]

\* Frame indices written to the builder, in call order.
Written == [i \in DOMAIN calls |-> calls[i].frame]

\* The value of the last set_corners_at_frame call made for index f.
LastWrite(f) ==
    LET last == CHOOSE i \in DOMAIN calls :
                   /\ calls[i].frame = f
                   /\ \A j \in DOMAIN calls : calls[j].frame = f => j <= i
    IN  calls[last].corners

C6_LastWriteWinsSorted ==
    pc = "built" =>
        LET I == Range(Written) IN
        /\ err = NoError
        /\ Len(storage) = Cardinality(I)
        /\ \A f \in I : storage[1 + Cardinality({g \in I : g < f})] = LastWrite(f)

\* A storage built after calls made out of index order, one index written
\* twice with different values.
C6_Witness ==
    /\ pc = "built"
    /\ \E i, j \in DOMAIN calls : i < j /\ calls[i].frame > calls[j].frame
    /\ \E i, j \in DOMAIN calls :
         i < j /\ calls[i].frame = calls[j].frame /\ calls[i].corners # calls[j].corners

\* The tracker call made for frame k.
TrackedAt(k) == CHOOSE t \in Range(tracked) : t.frame = k

\* Positions in the previous active set whose status is success.
Kept(t) == SelectSeq([i \in DOMAIN t.st |-> i], LAMBDA i : t.st[i] = 1)

\* The survivors of a tracker call: ids and sizes kept, positions predicted.
SurvivorIds(t) == [n \in DOMAIN Kept(t) |-> t.prev.ids[Kept(t)[n]]]

SurvivorPoints(t) == [n \in DOMAIN Kept(t) |-> t.next_points[Kept(t)[n]]]

SurvivorSizes(t) == [n \in DOMAIN Kept(t) |-> t.prev.sizes[Kept(t)[n]]]

\* All ids committed for frames before k.
IdsBefore(k) == UNION {Range(_corners[f].ids) : f \in {g \in DOMAIN _corners : g < k}}

\* No id that is present at a frame and absent at a later one is present
\* again after that.
NoResurrection(sto) ==
    \A i, j, k \in DOMAIN sto :
        i < j /\ j < k =>
            \A id \in Range(sto[i].ids) :
                id \notin Range(sto[j].ids) => id \notin Range(sto[k].ids)

C4_ZeroSurvivorsReseed ==
    \A k \in 1..(N - 1) :
        (StepEnded(k) /\ \E t \in Range(tracked) : t.frame = k /\ Kept(t) = <<>>) =>
            /\ ~(pc = "fault" /\ frame = k)
            /\ k \in DOMAIN _corners
            /\ \A l \in levels : \E i \in DOMAIN Found(k) : Found(k)[i].level = l
            /\ Range(_corners[k].ids) \cap Range(TrackedAt(k).prev.ids) = {}

(***************************************************************************)
(* C5: once seeding has ended, the detector has been run on each pyramid   *)
(* level in ascending order with no mask, and frame 0 is committed with    *)
(* the candidates of level l at position p * 2^l with size 7 * 2^l,        *)
(* concatenated in level order, under the ids 0..n-1.                      *)
(***************************************************************************)
C5_SeedingResult ==
    pc # "seed" =>
        /\ Seeded
        /\ Len(Found(0)) = Cardinality(levels)
        /\ \A i \in DOMAIN Found(0) : Found(0)[i].level = i - 1 /\ Found(0)[i].mask = None
        /\ _corners[0] = FrameCorners(arange(0, Len(NewPoints(Found(0)))),
                                      NewPoints(Found(0)), NewSizes(Found(0)))

(***************************************************************************)
(* C7: the frame indices passed to set_corners_at_frame during a run are   *)
(* 0, 1, 2, ... in this order, each once, and when the run over N frames   *)
(* has ended they are exactly 0..N-1.                                      *)
(***************************************************************************)
C7_EachFrameOnceInOrder ==
    /\ \A i \in DOMAIN Written : Written[i] = i - 1
    /\ (Ended /\ Seeded) => Len(Written) = N

C11_RunYieldsNEntries ==
    Ended =>
        /\ pc = "done"
        /\ Len(tracked) = N - 1
        /\ Len(storage) = N
        /\ DOMAIN _corners = 0..(N - 1)
        /\ \A k \in 0..(N - 1) : storage[k + 1] = _corners[k]

(***************************************************************************)
(* without_short_tracks, imported from _corners (line 19), applied to a    *)
(* storage.  Its text is not part of the sources: it is modelled from the  *)
(* description of the short-track filter and of FrameCorners' filter.      *)
(***************************************************************************)
\* Entries of c whose id is in keep, in their order.
filter_frame_corners(c, keep) ==
    LET kept == SelectSeq([i \in DOMAIN c.ids |-> i], LAMBDA i : c.ids[i] \in keep)
    IN  FrameCorners([n \in DOMAIN kept |-> c.ids[kept[n]]],
                     [n \in DOMAIN kept |-> c.points[kept[n]]],
                     [n \in DOMAIN kept |-> c.sizes[kept[n]]])

RECURSIVE CountInIds(_, _)
\* Occurrences of id in one frame's ids.
CountInIds(ids, id) ==
    IF ids = <<>> THEN 0
    ELSE (IF Head(ids) = id THEN 1 ELSE 0) + CountInIds(Tail(ids), id)

RECURSIVE TrackLength(_, _)
\* Occurrences of id across the whole storage.
TrackLength(sto, id) ==
    IF sto = <<>> THEN 0
    ELSE CountInIds(Head(sto).ids, id) + TrackLength(Tail(sto), id)

\* A track is kept only when it occurs more than min_len times: tracks of
\* exactly min_len occurrences are dropped too.
LongerThan(n, L) == n > L

\* A track is kept when it occurs at least min_len times.
LongEnough(n, L) == n >= L

without_short_tracks(sto, L) ==
    LET all == UNION {Range(sto[k].ids) : k \in DOMAIN sto}
        long == {id \in all : LongEnough(TrackLength(sto, id), L)}
    IN  [k \in DOMAIN sto |-> filter_frame_corners(sto[k], long)]

\* Id arrays of a frame: no id twice.
IdSeqs == {<<>>} \cup DistinctSeqs(0..MaxId, MaxId + 1)

\* The frame at index k with these ids; an entry's position and size tell
\* its id and its frame.
SampleFrame(ids, k) ==
    FrameCorners(ids, [i \in DOMAIN ids |-> <<5 * (ids[i] + 1), 5 * k>>],
                      [i \in DOMAIN ids |-> 7 * Pow2(ids[i] % 2)])

\* Storages of 1..MaxStoreLen frames.
SampleStorages ==
    UNION {{[k \in 1..n |-> SampleFrame(f[k], k)] : f \in [1..n -> IdSeqs]} : n \in 1..MaxStoreLen}

InitFilter ==
    /\ N = 0
    /\ progress = FALSE
    /\ pc = "filter"
    /\ counter = 0
    /\ points = <<>>
    /\ sizes = <<>>
    /\ corners = FrameCorners(<<>>, <<>>, <<>>)
    /\ frame = 0
    /\ st = <<>>
    /\ next_points = <<>>
    /\ _corners = <<>>
    /\ updates = 0
    /\ storage \in SampleStorages
    /\ err = NoError
    /\ calls = <<>>
    /\ detected = <<>>
    /\ tracked = <<>>
    /\ min_len \in 1..MaxMinLen
    /\ filtered = <<>>

Filter ==
    /\ pc = "filter"
    /\ filtered' = without_short_tracks(storage, min_len)
    /\ pc' = "filtered"
    /\ UNCHANGED <<N, progress, counter, points, sizes, corners, frame, st,
                   next_points, _corners, updates, storage, err, calls,
                   detected, tracked, min_len>>

NextFilter == Filter

SpecFilter == InitFilter /\ [][NextFilter]_vars

\* Number of entries of the storage that carry this id.
Occurrences(sto, id) ==
    Cardinality({e \in UNION {{<<k, i>> : i \in DOMAIN sto[k].ids} : k \in DOMAIN sto} :
                    sto[e[1]].ids[e[2]] = id})

\* Positions of frame c whose id occurs at least L times in sto.
LongPositions(sto, c, L) == {i \in DOMAIN c.ids : Occurrences(sto, c.ids[i]) >= L}

(***************************************************************************)
(* C12: without_short_tracks(storage, L) returns as many frames, in the    *)
(* same order; each holds, in their original order and with their position *)
(* and size, exactly the entries whose id occurs at least L times in the   *)
(* whole original storage; for L = 1 the result equals the input.          *)
(***************************************************************************)
C12_ShortTracksRemoved ==
    pc = "filtered" =>
        /\ Len(filtered) = Len(storage)
        /\ \A k \in DOMAIN storage :
             LET c == storage[k]
                 r == filtered[k]
                 P == LongPositions(storage, c, min_len)
             IN  /\ Len(r.ids) = Cardinality(P)
                 /\ Len(r.points) = Cardinality(P)
                 /\ Len(r.sizes) = Cardinality(P)
                 /\ \A i \in P :
                      LET n == Cardinality({j \in P : j <= i})
                      IN  /\ r.ids[n] = c.ids[i]
                          /\ r.points[n] = c.points[i]
                          /\ r.sizes[n] = c.sizes[i]
        /\ min_len = 1 => filtered = storage

\* A frame from which one track was removed (it occurs exactly min_len - 1
\* times) and another kept.
C12_Witness ==
    /\ pc = "filtered"
    /\ \E k \in DOMAIN storage :
         /\ \E id \in Range(storage[k].ids) :
              id \notin Range(filtered[k].ids) /\ Occurrences(storage, id) = min_len - 1
         /\ filtered[k].ids # <<>>

ExclusionDisks(t, l) ==
    {[centre |-> SurvivorPoints(t)[n], level |-> l, radius |-> 7 * Pow2(l)] :
        n \in {m \in DOMAIN Kept(t) : SurvivorSizes(t)[m] = 7 * Pow2(l)}}

C15_EmptyLevelIsNormal ==
    \A k \in 0..(N - 1) :
        (StepEnded(k) /\ \E i \in DOMAIN Found(k) : Found(k)[i].result = None) =>
            /\ ~(pc = "fault" /\ frame = k)
            /\ k \in DOMAIN _corners
            /\ LET n == Len(NewPoints(Found(k)))
                   c == _corners[k]
               IN  /\ Len(c.ids) >= n
                   /\ SubSeq(c.points, Len(c.points) - n + 1, Len(c.points)) = NewPoints(Found(k))
                   /\ k = 0 => Len(c.ids) = n

(***************************************************************************)
(* C16: the pyramid has exactly two levels, level 0 and level 1: the       *)
(* detector is never invoked on another level, it is invoked at most twice *)
(* for a frame and exactly twice for a frame that is committed, and every  *)
(* size recorded in a committed FrameCorners is 7 or 14.                   *)
(***************************************************************************)
C16_TwoPyramidLevels ==
    /\ \A i \in DOMAIN detected : detected[i].level \in {0, 1}
    /\ \A k \in 0..(N - 1) : Len(Found(k)) <= 2
    /\ \A i \in DOMAIN calls :
         /\ Len(Found(calls[i].frame)) = 2
         /\ Range(calls[i].corners.sizes) \subseteq {7, 14}

Rank(f) == Cardinality({g \in DOMAIN _corners : g <= f})

(***************************************************************************)
(* C19: build_corner_storage does not fail on index gaps: whatever set of  *)
(* frame indices was written, the storage has one entry per distinct       *)
(* index, in ascending index order, the entry of index f standing at the   *)
(* rank of f among the written indices, not at position f.                 *)
(***************************************************************************)
C19_GapsCompacted ==
    pc = "built" =>
        /\ err = NoError
        /\ Len(storage) = Cardinality(Range(Written))
        /\ DOMAIN _corners = Range(Written)
        /\ \A f \in DOMAIN _corners : storage[Rank(f)] = _corners[f]
        /\ \A f, g \in DOMAIN _corners : f < g => Rank(f) < Rank(g)

\* A storage built from indices with a gap: index 0 was never written, so
\* the entry of some index f stands before position f.
C19_Witness ==
    /\ pc = "built"
    /\ 0 \notin DOMAIN _corners
    /\ \E f \in DOMAIN _corners : Rank(f) < f + 1 /\ storage[Rank(f)] # FrameCorners(<<>>, <<>>, <<>>)
    /\ Cardinality(DOMAIN _corners) >= 2

=============================================================================
